---- MODULE Spec2Model ----
(***************************************************************************)
(* Model of toponetx/classes/simplex.py: the SimplexView store             *)
(* (faces_dict, max_dim) under insert_simplex and remove_maximal_simplex.  *)
(*                                                                         *)
(* Python's faces_dict is a 0-based list of dicts, faces_dict[k - 1]       *)
(* holding the simplices with k nodes.  Here faces_dict is a 1-based       *)
(* sequence, so faces_dict[k] is Python's faces_dict[k - 1].  A dict is a  *)
(* function whose DOMAIN is its key set; a key is a frozenset of nodes.    *)
(***************************************************************************)
EXTENDS Integers, FiniteSets, Sequences, TLC

\* faces_dict, max_dim: the fields of SimplexView.  call: the last call made on
\* the view, its argument, how it ended (res is "ok" or the exception raised)
\* the message of the exception (msg), and whether the argument was stored /
\* flagged maximal when it was made.  arg is the simplex the argument
\* denotes, {} when the argument is rejected as no simplex.  undoes marks a
\* remove_maximal_simplex(S) made right after the insert_simplex(S) that
\* stored S.
VARIABLES faces_dict, max_dim, call

\* sx: the last operation applied to a Simplex object, with its operands and
\* its result.
VARIABLES sx

\* cc: a CellComplex built with the default arguments.  nodes and edges are
\* its graph (an edge is the set of its two end nodes), cells its rank-2
\* cells: a dict keyed by the elements tuple, the value being the number of
\* copies stored under that tuple (their integer keys are 0..copies-1).
\* The other fields describe the last call made on the complex: op, how it
\* ended (res is "ok" or the exception raised, msg its message), before
\* (len(cells) when the call was made), dup (the call was an add_cell of
\* rank 2 whose cell was rotation/reflection-equivalent to a stored one) and
\* arg, what the call was given: the node of add_node and remove_node, and
\* of the cell and rank of add_cell the rank, whether the cell is iterable,
\* its length and the number of distinct elements in it.
VARIABLES cc

vars == <<faces_dict, max_dim, call, sx, cc>>

\* ---------------------------------------------------------------- bounds
NumNodes == 3
MaxAttr == 1
MaxRepeat == 1
\* cell complexes: node labels, longest cell given to add_cell, most rank-2
\* cells stored at once, highest rank given to add_cell
CCNumNodes == 4
MaxCellLen == 3
MaxCells == 2
MaxRank == 3
\* node labels of the complexes whose components are taken
CompNumNodes == 6

Nodes == 1..NumNodes
\* the simplices a caller can name: duplicate-free, non-empty node tuples
Simplices == (SUBSET Nodes) \ {{}}
\* **attr of a call: 0 is "no keyword given", a > 0 is weight=a
AttrArgs == 0..MaxAttr

\* the values a caller can pass to insert_simplex.  An iterable is described
\* by what the method reads of it: the set of its hashable elements (nodes),
\* how many further occurrences of them it holds (repeats, so that its len is
\* |nodes| + repeats) and whether it also holds an unhashable element.
\* "hashable" is a bare node, "object" a value neither iterable nor hashable.
InsertInputs ==
  {[kind |-> "iterable", nodes |-> s, repeats |-> r, unhashable |-> u] :
      s \in Simplices, r \in 0..MaxRepeat, u \in BOOLEAN}
  \cup {[kind |-> "hashable", nodes |-> {n}, repeats |-> 0, unhashable |-> FALSE] :
      n \in Nodes}
  \cup {[kind |-> "object", nodes |-> {}, repeats |-> 0, unhashable |-> TRUE]}

\* ------------------------------------------------------------ dict helpers
EmptyDict == [s \in {} |-> 0]

DictSet(d, k, v) == [s \in (DOMAIN d) \cup {k} |-> IF s = k THEN v ELSE d[s]]

DictDel(d, k) == [s \in (DOMAIN d) \ {k} |-> d[s]]

\* dict.update(attr) on a record
UpdateAttr(rec, attr) == IF attr = 0 THEN rec ELSE [rec EXCEPT !.attr = attr]

\* ------------------------------------------------- order of combinations()
Min(S) == CHOOSE x \in S : \A y \in S : x <= y

\* combinations(simplex_, r) yields the r-subsets in lexicographic order
LexLess(A, B) == A # B /\ Min((A \ B) \cup (B \ A)) \in A

RECURSIVE SortLex(_)
SortLex(S) ==
  IF S = {} THEN << >>
  ELSE LET first == CHOOSE A \in S : \A B \in S \ {A} : LexLess(A, B)
       IN  <<first>> \o SortLex(S \ {first})

Combinations(simplex_, r) ==
  SortLex({f \in SUBSET simplex_ : Cardinality(f) = r})

\* for r in range(numnodes, 0, -1): for face in combinations(simplex_, r)
RECURSIVE FaceOrder(_, _)
FaceOrder(simplex_, r) ==
  IF r = 0 THEN << >>
  ELSE Combinations(simplex_, r) \o FaceOrder(simplex_, r - 1)

\* ------------------------------------------------------------ SimplexView
Stored(fd, s) == Cardinality(s) <= Len(fd) /\ s \in DOMAIN fd[Cardinality(s)]

Rec(fd, s) == fd[Cardinality(s)][s]

AllStored(fd) == UNION {DOMAIN fd[i] : i \in 1..Len(fd)}

_update_faces_dict_length(fd, simplex_) ==
  IF Cardinality(simplex_) > Len(fd)
  THEN fd \o [i \in 1..(Cardinality(simplex_) - Len(fd)) |-> EmptyDict]
  ELSE fd

\* _update_faces_dict_entry that creates no record for a missing proper face
_update_faces_dict_entry_no_new_face(st, face, simplex_, attr) ==
  LET k == Cardinality(face)
      fd == st.fd
  IN
  IF face \notin DOMAIN fd[k]
  THEN IF Cardinality(face) = Cardinality(simplex_)
       THEN [st EXCEPT !.fd[k] = DictSet(fd[k], face,
               [is_maximal |-> TRUE, membership |-> {}, attr |-> 0])]
       ELSE st
  ELSE IF Cardinality(face) # Cardinality(simplex_)
       THEN IF fd[k][face].is_maximal
            THEN [fd |-> [fd EXCEPT ![k][face].is_maximal = FALSE,
                                    ![k][face].membership = @ \cup {simplex_}],
                  maximal_faces |-> st.maximal_faces \cup {face}]
            ELSE [st EXCEPT !.fd[k][face].membership =
                               (@ \ st.maximal_faces) \cup {simplex_},
                            !.fd[k][face].is_maximal = FALSE]
       ELSE [st EXCEPT !.fd[k][simplex_] = UpdateAttr(@, attr)]

\* _update_faces_dict_entry that leaves a stored maximal face flagged maximal
_update_faces_dict_entry_keep_flag(st, face, simplex_, attr) ==
  LET k == Cardinality(face)
      fd == st.fd
  IN
  IF face \notin DOMAIN fd[k]
  THEN IF Cardinality(face) = Cardinality(simplex_)
       THEN [st EXCEPT !.fd[k] = DictSet(fd[k], face,
               [is_maximal |-> TRUE, membership |-> {}, attr |-> 0])]
       ELSE [st EXCEPT !.fd[k] = DictSet(fd[k], face,
               [is_maximal |-> FALSE, membership |-> {simplex_}, attr |-> 0])]
  ELSE IF Cardinality(face) # Cardinality(simplex_)
       THEN IF fd[k][face].is_maximal
            THEN [fd |-> [fd EXCEPT ![k][face].membership = @ \cup {simplex_}],
                  maximal_faces |-> st.maximal_faces \cup {face}]
            ELSE [st EXCEPT !.fd[k][face].membership =
                               (@ \ st.maximal_faces) \cup {simplex_},
                            !.fd[k][face].is_maximal = FALSE]
       ELSE [st EXCEPT !.fd[k][simplex_] = UpdateAttr(@, attr)]

\* _update_faces_dict_entry that never drops a demoted simplex from membership
_update_faces_dict_entry_no_prune(st, face, simplex_, attr) ==
  LET k == Cardinality(face)
      fd == st.fd
  IN
  IF face \notin DOMAIN fd[k]
  THEN IF Cardinality(face) = Cardinality(simplex_)
       THEN [st EXCEPT !.fd[k] = DictSet(fd[k], face,
               [is_maximal |-> TRUE, membership |-> {}, attr |-> 0])]
       ELSE [st EXCEPT !.fd[k] = DictSet(fd[k], face,
               [is_maximal |-> FALSE, membership |-> {simplex_}, attr |-> 0])]
  ELSE IF Cardinality(face) # Cardinality(simplex_)
       THEN IF fd[k][face].is_maximal
            THEN [fd |-> [fd EXCEPT ![k][face].is_maximal = FALSE,
                                    ![k][face].membership = @ \cup {simplex_}],
                  maximal_faces |-> st.maximal_faces \cup {face}]
            ELSE [st EXCEPT !.fd[k][face].membership = @ \cup {simplex_},
                            !.fd[k][face].is_maximal = FALSE]
       ELSE [st EXCEPT !.fd[k][simplex_] = UpdateAttr(@, attr)]

\* st = [fd, maximal_faces]; returns st after the call
_update_faces_dict_entry(st, face, simplex_, attr) ==
  LET k == Cardinality(face)
      fd == st.fd
  IN
  IF face \notin DOMAIN fd[k]
  THEN IF Cardinality(face) = Cardinality(simplex_)
       THEN [st EXCEPT !.fd[k] = DictSet(fd[k], face,
               [is_maximal |-> TRUE, membership |-> {}, attr |-> 0])]
       ELSE [st EXCEPT !.fd[k] = DictSet(fd[k], face,
               [is_maximal |-> FALSE, membership |-> {simplex_}, attr |-> 0])]
  ELSE IF Cardinality(face) # Cardinality(simplex_)
       THEN IF fd[k][face].is_maximal
            THEN [fd |-> [fd EXCEPT ![k][face].is_maximal = FALSE,
                                    ![k][face].membership = @ \cup {simplex_}],
                  maximal_faces |-> st.maximal_faces \cup {face}]
            ELSE [st EXCEPT !.fd[k][face].membership =
                               (@ \ st.maximal_faces) \cup {simplex_},
                            !.fd[k][face].is_maximal = FALSE]
       ELSE [st EXCEPT !.fd[k][simplex_] = UpdateAttr(@, attr)]

RECURSIVE InsertLoop(_, _, _, _)
InsertLoop(st, faces, simplex_, attr) ==
  IF faces = << >> THEN st
  ELSE InsertLoop(_update_faces_dict_entry(st, Head(faces), simplex_, attr),
                  Tail(faces), simplex_, attr)

\* insert_simplex without the early return for a stored simplex
InsertResult_no_early_return(fd0, md0, simplex_, attr) ==
  LET n   == Cardinality(simplex_)
      fd1 == _update_faces_dict_length(fd0, simplex_)
      md1 == IF md0 < n - 1 THEN n - 1 ELSE md0
      st  == InsertLoop([fd |-> fd1, maximal_faces |-> {}],
                        FaceOrder(simplex_, n), simplex_, attr)
  IN  [fd |-> [st.fd EXCEPT ![n][simplex_] = UpdateAttr(@, attr)],
       max_dim |-> md1]

\* the store [fd, max_dim] after insert_simplex(simplex_, **attr)
InsertResult(fd0, md0, simplex_, attr) ==
  LET n   == Cardinality(simplex_)
      fd1 == _update_faces_dict_length(fd0, simplex_)
  IN
  IF simplex_ \in DOMAIN fd1[n]
  THEN [fd |-> [fd1 EXCEPT ![n][simplex_] = UpdateAttr(@, attr)],
        max_dim |-> md0]
  ELSE LET md1 == IF md0 < n - 1 THEN n - 1 ELSE md0
           st  == InsertLoop([fd |-> fd1, maximal_faces |-> {}],
                             FaceOrder(simplex_, n), simplex_, attr)
       IN  [fd |-> [st.fd EXCEPT ![n][simplex_] = UpdateAttr(@, attr)],
            max_dim |-> md1]

\* insert_simplex that grows faces_dict before it validates the input
InsertOutcome_length_first(fd0, md0, x, attr) ==
  LET ln  == Cardinality(x.nodes) + x.repeats
      fdx == _update_faces_dict_length(fd0, x.nodes)
  IN
  IF x.kind = "object"
  THEN [fd |-> fd0, max_dim |-> md0, res |-> "TypeError",
        msg |-> "input type must be iterable, or Simplex"]
  ELSE IF x.unhashable
  THEN [fd |-> fdx, max_dim |-> md0, res |-> "ValueError",
        msg |-> "all element of simplex must be hashable"]
  ELSE IF Cardinality(x.nodes) # ln
  THEN [fd |-> fdx, max_dim |-> md0, res |-> "ValueError",
        msg |-> "a simplex cannot contain duplicate nodes"]
  ELSE LET r == InsertResult(fd0, md0, x.nodes, attr)
       IN  [fd |-> r.fd, max_dim |-> r.max_dim, res |-> "ok", msg |-> ""]

\* insert_simplex(x, **attr) from its first line: [fd, max_dim, res, msg].
\* A bare hashable is wrapped into a one-element list (lines 460-461) and
\* then validated like an iterable.
InsertOutcome(fd0, md0, x, attr) ==
  LET ln == Cardinality(x.nodes) + x.repeats
  IN
  IF x.kind = "object"
  THEN [fd |-> fd0, max_dim |-> md0, res |-> "TypeError",
        msg |-> "input type must be iterable, or Simplex"]
  ELSE IF x.unhashable
  THEN [fd |-> fd0, max_dim |-> md0, res |-> "ValueError",
        msg |-> "all element of simplex must be hashable"]
  ELSE IF Cardinality(x.nodes) # ln
  THEN [fd |-> fd0, max_dim |-> md0, res |-> "ValueError",
        msg |-> "a simplex cannot contain duplicate nodes"]
  ELSE LET r == InsertResult(fd0, md0, x.nodes, attr)
       IN  [fd |-> r.fd, max_dim |-> r.max_dim, res |-> "ok", msg |-> ""]

\* keyword arguments of insert_simplex by name: weight=a is an ordinary
\* attribute, is_maximal=b has the name of a field of the record.  src tells
\* whether they are given as **attr of the call or as the properties of a
\* Simplex object passed to it.
KwArgs ==
  [name : {"weight"}, value : 1..MaxAttr, src : {"attr", "properties"}]
  \cup [name : {"is_maximal"}, value : BOOLEAN, src : {"attr", "properties"}]

\* record.update({name: value}): the attributes live in the dict that holds
\* "is_maximal" and "membership"
UpdateKw(rec, kw) ==
  IF kw.name = "is_maximal" THEN [rec EXCEPT !.is_maximal = kw.value]
  ELSE [rec EXCEPT !.attr = kw.value]

\* the store after insert_simplex(simplex_, name=value), or after
\* insert_simplex(Simplex(simplex_, name=value)): _update_faces_dict_entry
\* never reads attr for a simplex that is not stored, line 484 applies the
\* **attr of the call to a stored simplex, lines 496-500 the properties of
\* the Simplex object or the **attr of the call to a new one
InsertKw(fd0, md0, simplex_, kw) ==
  LET n == Cardinality(simplex_)
      r == InsertResult(fd0, md0, simplex_, 0)
  IN  IF Stored(fd0, simplex_) /\ kw.src = "properties" THEN r
      ELSE [r EXCEPT !.fd[n][simplex_] = UpdateKw(@, kw)]

\* the input passes the checks of lines 460-476 and denotes the simplex x.nodes
ValidInput(x) == x.kind # "object" /\ ~ x.unhashable /\ x.repeats = 0

insert_simplex(x, attr) ==
  LET o == InsertOutcome(faces_dict, max_dim, x, attr)
      v == ValidInput(x)
  IN  /\ faces_dict' = o.fd
      /\ max_dim' = o.max_dim
      /\ call' = [op |-> "insert_simplex",
                  arg |-> IF v THEN x.nodes ELSE {},
                  attr |-> IF v THEN attr ELSE 0,
                  res |-> o.res, msg |-> o.msg, undoes |-> FALSE,
                  stored |-> v /\ Stored(faces_dict, x.nodes),
                  maximal |-> v /\ Stored(faces_dict, x.nodes)
                                /\ Rec(faces_dict, x.nodes).is_maximal]
      /\ UNCHANGED <<sx, cc>>

\* longest hashable iterable (tuple, str) passed to insert_node
MaxIterLen == 2

\* nodes of the simplices passed around in the runs that call insert_node
NodeNumNodes == 2

NodeSimplices == (SUBSET (1..NodeNumNodes)) \ {{}}

\* the values a caller can pass to insert_node.  "hashable" is a bare node
\* that is not iterable; "Simplex" a Simplex object with its node set and its
\* properties; "iterable" a hashable iterable such as a tuple or a str, which
\* insert_node takes as the NAME of one node: node is that name, written as a
\* number outside Nodes, one name per length len; "list" an unhashable
\* iterable; "object" a value neither hashable nor iterable.
NodeInputs ==
  {[kind |-> "hashable", nodes |-> {n}, len |-> 1, props |-> 0] :
      n \in 1..NodeNumNodes}
  \cup {[kind |-> "Simplex", nodes |-> s, len |-> Cardinality(s), props |-> p] :
          s \in NodeSimplices, p \in AttrArgs}
  \cup {[kind |-> "iterable", nodes |-> {NumNodes + 1 + l}, len |-> l, props |-> 0] :
          l \in 0..MaxIterLen}
  \cup {[kind |-> "list", nodes |-> {}, len |-> 0, props |-> 0],
        [kind |-> "object", nodes |-> {}, len |-> 0, props |-> 0]}

\* insert_node(x, **attr): [fd, max_dim, res, msg].  The record goes to
\* faces_dict[0] whatever the size of the node set, and max_dim follows
\* len(simplex).
InsertNodeOutcome(fd0, md0, x, attr) ==
  IF x.kind = "hashable"
  THEN InsertOutcome(fd0, md0,
         [kind |-> "hashable", nodes |-> x.nodes, repeats |-> 0,
          unhashable |-> FALSE], attr)
  ELSE IF x.kind = "object"
  THEN [fd |-> fd0, max_dim |-> md0, res |-> "TypeError",
        msg |-> "input type must be iterable, or Simplex"]
  ELSE IF x.kind = "list"
  THEN [fd |-> fd0, max_dim |-> md0, res |-> "TypeError",
        msg |-> "unhashable type"]
  ELSE
  LET simplex_ == x.nodes
      fd1 == _update_faces_dict_length(fd0, simplex_)
  IN  IF simplex_ \in DOMAIN fd1[1]
      THEN [fd |-> [fd1 EXCEPT ![1][simplex_] = UpdateAttr(@, attr)],
            max_dim |-> md0, res |-> "ok", msg |-> ""]
      ELSE LET rec == [is_maximal |-> TRUE, membership |-> {}, attr |-> 0]
               upd == IF x.kind = "Simplex" THEN x.props ELSE attr
           IN  [fd |-> [fd1 EXCEPT ![1] = DictSet(@, simplex_, UpdateAttr(rec, upd))],
                max_dim |-> IF md0 < x.len - 1 THEN x.len - 1 ELSE md0,
                res |-> "ok", msg |-> ""]

insert_node(x, attr) ==
  LET o == InsertNodeOutcome(faces_dict, max_dim, x, attr)
  IN  /\ faces_dict' = o.fd
      /\ max_dim' = o.max_dim
      /\ call' = [op |-> "insert_node", arg |-> x.nodes, attr |-> attr,
                  res |-> o.res, msg |-> o.msg, undoes |-> FALSE,
                  stored |-> Len(faces_dict) > 0 /\ x.nodes \in DOMAIN faces_dict[1],
                  maximal |-> Len(faces_dict) > 0 /\ x.nodes \in DOMAIN faces_dict[1]
                                /\ faces_dict[1][x.nodes].is_maximal]
      /\ UNCHANGED <<sx, cc>>

\* proper faces of simplex_: the members of Simplex(simplex_).faces that the
\* loop of remove_maximal_simplex does not skip
ProperFaces(simplex_) == (SUBSET simplex_) \ {{}, simplex_}

\* the loop body of remove_maximal_simplex succeeds on face s
FaceOk(fd, s, simplex_) == Stored(fd, s) /\ simplex_ \in Rec(fd, s).membership

\* the loop body of remove_maximal_simplex without membership.remove(simplex_)
RemoveFromFaces_keep_member(fd, P, simplex_) ==
  [i \in 1..Len(fd) |->
     [s \in DOMAIN fd[i] |->
        IF s \in P /\ Cardinality(s) = i
        THEN LET m == fd[i][s].membership \ {simplex_}
             IN  [fd[i][s] EXCEPT
                    !.is_maximal =
                       IF m = {} /\ Cardinality(s) = Cardinality(simplex_) - 1
                       THEN TRUE ELSE @]
        ELSE fd[i][s]]]

\* the loop body of remove_maximal_simplex that also clears the attributes of
\* every other record
RemoveFromFaces_clears_attributes(fd, P, simplex_) ==
  [i \in 1..Len(fd) |->
     [s \in DOMAIN fd[i] |->
        IF s \in P /\ Cardinality(s) = i
        THEN LET m == fd[i][s].membership \ {simplex_}
             IN  [fd[i][s] EXCEPT
                    !.membership = m,
                    !.is_maximal =
                       IF m = {} /\ Cardinality(s) = Cardinality(simplex_) - 1
                       THEN TRUE ELSE @]
        ELSE [fd[i][s] EXCEPT !.attr = 0]]]

\* the loop body of remove_maximal_simplex applied to the faces in P
RemoveFromFaces(fd, P, simplex_) ==
  [i \in 1..Len(fd) |->
     [s \in DOMAIN fd[i] |->
        IF s \in P /\ Cardinality(s) = i
        THEN LET m == fd[i][s].membership \ {simplex_}
             IN  [fd[i][s] EXCEPT
                    !.membership = m,
                    !.is_maximal =
                       IF m = {} /\ Cardinality(s) = Cardinality(simplex_) - 1
                       THEN TRUE ELSE @]
        ELSE fd[i][s]]]

DropLevel(fd, n) == [i \in 1..(Len(fd) - 1) |-> IF i < n THEN fd[i] ELSE fd[i + 1]]

\* remove_maximal_simplex without the is_maximal test
RemoveOutcomes_no_maximal_test(fd0, md0, simplex_) ==
  LET n == Cardinality(simplex_)
  IN
  IF n > Len(fd0)
  THEN {[fd |-> fd0, max_dim |-> md0, res |-> "IndexError"]}
  ELSE IF simplex_ \notin DOMAIN fd0[n]
  THEN {[fd |-> fd0, max_dim |-> md0, res |-> "KeyError"]}
  ELSE LET fd1  == [fd0 EXCEPT ![n] = DictDel(@, simplex_)]
           good == {s \in ProperFaces(simplex_) : FaceOk(fd1, s, simplex_)}
           bad  == ProperFaces(simplex_) \ good
       IN  IF bad # {}
           THEN {[fd |-> RemoveFromFaces(fd1, P, simplex_), max_dim |-> md0,
                  res |-> "KeyError"] : P \in SUBSET good}
           ELSE LET fd2 == RemoveFromFaces(fd1, good, simplex_)
                IN  IF DOMAIN fd2[n] = {} /\ n - 1 = md0
                    THEN {[fd |-> DropLevel(fd2, n),
                           max_dim |-> Len(fd2) - 2, res |-> "ok"]}
                    ELSE {[fd |-> fd2, max_dim |-> md0, res |-> "ok"]}

\* every [fd, max_dim, res] remove_maximal_simplex(simplex_) can end in.
\* Simplex(simplex_).faces is a frozenset of objects hashed by identity, so
\* the loop visits the faces in an arbitrary order: when some face raises,
\* any subset of the faces that do not raise may have been repaired before.
RemoveOutcomes(fd0, md0, simplex_) ==
  LET n == Cardinality(simplex_)
  IN
  IF n > Len(fd0)
  THEN {[fd |-> fd0, max_dim |-> md0, res |-> "IndexError"]}
  ELSE IF simplex_ \notin DOMAIN fd0[n]
  THEN {[fd |-> fd0, max_dim |-> md0, res |-> "KeyError"]}
  ELSE IF ~ fd0[n][simplex_].is_maximal
  THEN {[fd |-> fd0, max_dim |-> md0, res |-> "ValueError"]}
  ELSE LET fd1  == [fd0 EXCEPT ![n] = DictDel(@, simplex_)]
           good == {s \in ProperFaces(simplex_) : FaceOk(fd1, s, simplex_)}
           bad  == ProperFaces(simplex_) \ good
       IN  IF bad # {}
           THEN {[fd |-> RemoveFromFaces(fd1, P, simplex_), max_dim |-> md0,
                  res |-> "KeyError"] : P \in SUBSET good}
           ELSE LET fd2 == RemoveFromFaces(fd1, good, simplex_)
                IN  IF DOMAIN fd2[n] = {} /\ n - 1 = md0
                    THEN {[fd |-> DropLevel(fd2, n),
                           max_dim |-> Len(fd2) - 2, res |-> "ok"]}
                    ELSE {[fd |-> fd2, max_dim |-> md0, res |-> "ok"]}

remove_maximal_simplex(simplex_) ==
  \E o \in RemoveOutcomes(faces_dict, max_dim, simplex_) :
      /\ faces_dict' = o.fd
      /\ max_dim' = o.max_dim
      /\ call' = [op |-> "remove_maximal_simplex", arg |-> simplex_, attr |-> 0,
                  res |-> o.res, msg |-> "",
                  undoes |-> /\ call.op = "insert_simplex" /\ call.res = "ok"
                             /\ call.arg = simplex_ /\ ~ call.stored,
                  stored |-> Stored(faces_dict, simplex_),
                  maximal |-> Stored(faces_dict, simplex_)
                                /\ Rec(faces_dict, simplex_).is_maximal]
      /\ UNCHANGED <<sx, cc>>

\* the values x of a lookup view[x]: a Simplex object, a plain iterable (its
\* set of elements and the number of further occurrences of them), a bare
\* hashable node, or an object neither iterable nor hashable
LookupInputs ==
  {[kind |-> "Simplex", nodes |-> q, repeats |-> 0] : q \in SUBSET Nodes}
  \cup {x \in [kind : {"iterable"}, nodes : SUBSET Nodes, repeats : 0..MaxRepeat] :
          x.nodes = {} => x.repeats = 0}
  \cup {[kind |-> "hashable", nodes |-> {n}, repeats |-> 0] : n \in Nodes}
  \cup {[kind |-> "object", nodes |-> {}, repeats |-> 0]}

\* self.faces_dict[n - 1] of Python: index -1 is the last level, an index
\* outside the list raises IndexError
Level(fd, n) ==
  IF n = 0
  THEN IF Len(fd) = 0 THEN [res |-> "IndexError", dict |-> EmptyDict]
       ELSE [res |-> "ok", dict |-> fd[Len(fd)]]
  ELSE IF n > Len(fd) THEN [res |-> "IndexError", dict |-> EmptyDict]
  ELSE [res |-> "ok", dict |-> fd[n]]

\* SimplexView.__contains__(e) for a frozenset e of nodes
SimplexView_contains(fd, md, e) ==
  IF Len(fd) = 0 THEN FALSE
  ELSE IF Cardinality(e) - 1 > md THEN FALSE
  ELSE IF Cardinality(e) = 0 THEN FALSE
  ELSE e \in DOMAIN Level(fd, Cardinality(e)).dict

NoRecord == [is_maximal |-> FALSE, membership |-> {}, attr |-> 0]

\* SimplexView.__getitem__(x): res is "ok" with the record returned, "None"
\* when the method falls off its end, or the exception raised
getitem(fd, md, x) ==
  LET lv == Level(fd, Cardinality(x.nodes))
  IN
  IF x.kind = "Simplex"
  THEN IF lv.res # "ok" THEN [res |-> lv.res, value |-> NoRecord]
       ELSE IF x.nodes \in DOMAIN lv.dict
       THEN [res |-> "ok", value |-> lv.dict[x.nodes]]
       ELSE [res |-> "None", value |-> NoRecord]
  ELSE IF x.kind = "iterable"
  THEN IF lv.res # "ok" THEN [res |-> lv.res, value |-> NoRecord]
       ELSE IF x.nodes \in DOMAIN lv.dict
       THEN [res |-> "ok", value |-> lv.dict[x.nodes]]
       ELSE [res |-> "KeyError", value |-> NoRecord]
  ELSE IF x.kind = "hashable"
  THEN IF SimplexView_contains(fd, md, x.nodes)
       THEN [res |-> "ok", value |-> fd[1][x.nodes]]
       ELSE [res |-> "None", value |-> NoRecord]
  ELSE [res |-> "None", value |-> NoRecord]

\* ------------------------------------------------------------------ Simplex
\* Python values as far as == tells them apart: an int node and a frozenset
\* are never equal
PyInt(n) == [tag |-> "int", val |-> {n}]

PyFrozenset(S) == [tag |-> "frozenset", val |-> S]

PyEq(a, b) == a.tag = b.tag /\ a.val = b.val

\* v in nodes, for the frozenset nodes of a Simplex built from int nodes
PyIn(v, nodes) == \E y \in nodes : PyEq(v, PyInt(y))

\* the values e of a test "e in simplex": an iterable (its set of elements
\* and the number of further occurrences, so len(e) = |elems| + repeats), a
\* bare hashable node, or an object neither iterable nor hashable
ContainsQueries ==
  {e \in {[kind |-> "iterable", elems |-> q, repeats |-> r] :
              q \in SUBSET Nodes, r \in 0..MaxRepeat} :
      e.elems = {} => e.repeats = 0}
  \cup {[kind |-> "hashable", elems |-> {n}, repeats |-> 0] : n \in Nodes}
  \cup {[kind |-> "object", elems |-> {}, repeats |-> 0]}

NoQuery == [kind |-> "object", elems |-> {}, repeats |-> 0]

\* Simplex.__contains__
Simplex_contains(nodes, e) ==
  IF Cardinality(nodes) = 0 THEN FALSE
  ELSE IF e.kind = "iterable"
  THEN IF Cardinality(e.elems) + e.repeats # 1
       THEN FALSE
       ELSE e.elems \subseteq nodes
  ELSE IF e.kind = "hashable"
  THEN PyIn(PyFrozenset(e.elems), nodes)
  ELSE FALSE

\* sx before any operation.  nodes, e, other, n (the len of the elements given
\* to Simplex()) and tree (construct_tree) are the operands of the last
\* operation; res ("ok" or the exception raised), result (a truth value), len
\* (the len() of the simplex) and faces (a set of Simplex objects) what came
\* of it.
NoSx ==
  [op |-> "none", nodes |-> {}, e |-> NoQuery, result |-> FALSE,
   other |-> {}, n |-> 0, tree |-> TRUE, res |-> "ok", len |-> 0, faces |-> {}]

\* e in Simplex(nodes)
contains(nodes, e) ==
  /\ sx' = [NoSx EXCEPT !.op = "contains", !.nodes = nodes, !.e = e,
                        !.result = Simplex_contains(nodes, e)]
  /\ UNCHANGED <<faces_dict, max_dim, call, cc>>

\* the elements given to Simplex(): their set and the number of further
\* occurrences of them, so that len(elements) = |nodes| + repeats
SimplexInputs ==
  {x \in [nodes : SUBSET Nodes, repeats : 0..MaxRepeat] :
      x.nodes = {} => x.repeats = 0}

\* a Simplex object.  The class defines neither __eq__ nor __hash__, so an
\* object is equal to itself only and hashes by its identity id.
SimplexObject(id, nodes, attr) == [id |-> id, nodes |-> nodes, attr |-> attr]

\* a == b and hash(a) == hash(b) for Simplex objects
Simplex_eq(a, b) == a.id = b.id

Simplex_hash(a) == a.id

\* set.add(o) on a set of Simplex objects
SetAdd(S, o) ==
  IF \E p \in S : Simplex_hash(p) = Simplex_hash(o) /\ Simplex_eq(p, o)
  THEN S ELSE S \cup {o}

\* the loop of construct_simplex_tree over the faces fs[i..]; the i-th object
\* made gets the identity i
RECURSIVE AddFaces(_, _, _)
AddFaces(faceset, fs, i) ==
  IF i > Len(fs) THEN faceset
  ELSE AddFaces(SetAdd(faceset, SimplexObject(i, fs[i], 0)), fs, i + 1)

\* construct_simplex_tree that starts at numnodes - 1
construct_simplex_tree_proper(elements) ==
  AddFaces({}, FaceOrder(elements,
                         IF elements = {} THEN 0 ELSE Cardinality(elements) - 1), 1)

\* Simplex.construct_simplex_tree(elements), elements without repetition
construct_simplex_tree(elements) ==
  AddFaces({}, FaceOrder(elements, Cardinality(elements)), 1)

\* Simplex.__init__ that compares len(nodes) with itself
Simplex_init_no_check(x, tree, attr) ==
  [res |-> "ok", msg |-> "", nodes |-> x.nodes, construct_tree |-> tree,
   _faces |-> IF tree THEN construct_simplex_tree(x.nodes) ELSE {},
   properties |-> attr]

\* Simplex(elements, construct_tree=tree, **attr)
Simplex_init(x, tree, attr) ==
  IF Cardinality(x.nodes) # Cardinality(x.nodes) + x.repeats
  THEN [res |-> "ValueError", msg |-> "a simplex cannot contain duplicate nodes",
        nodes |-> x.nodes, construct_tree |-> tree, _faces |-> {},
        properties |-> 0]
  ELSE [res |-> "ok", msg |-> "", nodes |-> x.nodes, construct_tree |-> tree,
        _faces |-> IF tree THEN construct_simplex_tree(x.nodes) ELSE {},
        properties |-> attr]

\* Simplex.faces
Simplex_faces(self) ==
  IF self.construct_tree THEN self._faces
  ELSE construct_simplex_tree(self.nodes)

\* Simplex.__len__
Simplex_len(self) == Cardinality(self.nodes)

\* s = Simplex(elements, construct_tree=tree, **attr); len(s)
new_simplex(x, tree, attr) ==
  LET s == Simplex_init(x, tree, attr)
  IN  /\ sx' = [NoSx EXCEPT !.op = "Simplex", !.nodes = x.nodes,
                            !.n = Cardinality(x.nodes) + x.repeats,
                            !.tree = tree, !.res = s.res,
                            !.len = IF s.res = "ok" THEN Simplex_len(s) ELSE 0]
      /\ UNCHANGED <<faces_dict, max_dim, call, cc>>

\* Simplex(nodes, construct_tree=tree).faces
faces(nodes, tree) ==
  LET s == Simplex_init([nodes |-> nodes, repeats |-> 0], tree, 0)
  IN  /\ sx' = [NoSx EXCEPT !.op = "faces", !.nodes = nodes, !.tree = tree,
                            !.len = Simplex_len(s), !.faces = Simplex_faces(s)]
      /\ UNCHANGED <<faces_dict, max_dim, call, cc>>

\* Simplex(a, **attr_a) == Simplex(b, **attr_b), two objects made one after
\* the other
equals(a, attr_a, b, attr_b) ==
  /\ sx' = [NoSx EXCEPT !.op = "eq", !.nodes = a, !.other = b,
                        !.result = Simplex_eq(SimplexObject(1, a, attr_a),
                                              SimplexObject(2, b, attr_b))]
  /\ UNCHANGED <<faces_dict, max_dim, call, cc>>

\* ------------------------------------------------------------ CellComplex
CCNodes == 1..CCNumNodes

NoArg == [kind |-> "none", rank |-> 0, len |-> 0, distinct |-> 0, node |-> 0]

NodeArg(n) == [NoArg EXCEPT !.kind = "node", !.node = n]

\* CellComplex()
EmptyComplex ==
  [nodes |-> {}, edges |-> {}, cells |-> << >>,
   op |-> "init", arg |-> NoArg, res |-> "ok", msg |-> "", before |-> 0,
   dup |-> FALSE]

\* the tuples of lo..hi node labels
CellTuples(lo, hi) == UNION {[1..k -> CCNodes] : k \in lo..hi}

\* the cell argument of add_cell: an iterable of node labels, or a bare int
IterableArg(t) == [kind |-> "iterable", elems |-> t]

IntArg(n) == [kind |-> "int", elems |-> <<n>>]

\* the (cell, rank) arguments given to add_cell
AddCellInputs ==
  {<<IterableArg(t), 0>> : t \in CellTuples(2, 2)}
  \cup {<<IterableArg(t), 1>> : t \in CellTuples(1, MaxCellLen)}
  \cup {<<IterableArg(t), 2>> : t \in CellTuples(3, MaxCellLen)}
  \cup {<<IntArg(n), 2>> : n \in CCNodes}
  \cup {<<IterableArg(p[1]), p[2]>> : p \in CellTuples(2, 2) \X (3..MaxRank)}

Elements(cell) == {cell[i] : i \in 1..Len(cell)}

CellArg(x, rank) ==
  [kind |-> x.kind, rank |-> rank,
   len |-> IF x.kind = "iterable" THEN Len(x.elems) ELSE 0,
   distinct |-> IF x.kind = "iterable" THEN Cardinality(Elements(x.elems)) ELSE 0,
   node |-> 0]

CyclicPairs_no_wrap(cell) == [i \in 1..Len(cell) |-> <<cell[i], cell[IF i = Len(cell) THEN i - 1 ELSE i + 1]>>]

\* zip(cell, cell[1:] + [cell[0]]): the traversal of the cell's boundary
CyclicPairs(cell) == [i \in 1..Len(cell) |-> <<cell[i], cell[(i % Len(cell)) + 1]>>]

BoundaryEdges(cell) == {{CyclicPairs(cell)[i][1], CyclicPairs(cell)[i][2]} : i \in 1..Len(cell)}

\* the rotations of a cell and of its reversal
Rotations(cell) ==
  {[i \in 1..Len(cell) |-> cell[((i + k - 1) % Len(cell)) + 1]] : k \in 0..(Len(cell) - 1)}

Reversed(cell) == [i \in 1..Len(cell) |-> cell[Len(cell) + 1 - i]]

Equivalent(a, b) ==
  /\ Len(a) = Len(b)
  /\ b \in Rotations(a) \cup Rotations(Reversed(a))

RECURSIVE SumOver(_, _)
SumOver(f, D) ==
  IF D = {} THEN 0
  ELSE LET d == CHOOSE d \in D : TRUE IN f[d] + SumOver(f, D \ {d})

\* len(CC.cells)
NumCells(cells) == SumOver(cells, DOMAIN cells)

\* CC.shape
shape(c) == <<Cardinality(c.nodes), Cardinality(c.edges), NumCells(c.cells)>>

\* a call that raises: the complex is as it was
Raise(c, op, arg, res, msg) ==
  [c EXCEPT !.op = op, !.arg = arg, !.res = res, !.msg = msg,
            !.before = NumCells(c.cells), !.dup = FALSE]

\* a call that returns
Return(c, op, arg, nodes, edges, cells, dup) ==
  [nodes |-> nodes, edges |-> edges, cells |-> cells,
   op |-> op, arg |-> arg, res |-> "ok", msg |-> "", before |-> NumCells(c.cells), dup |-> dup]

\* is_insertable_cycle in a regular complex: no element occurs twice
is_insertable_cycle(cell) == Cardinality(Elements(cell)) = Len(cell)

\* _insert_cell: one more copy under the cell's elements tuple
_insert_cell_no_copy(cells, cell) ==
  IF \E k \in DOMAIN cells : Equivalent(k, cell) THEN cells
  ELSE [k \in DOMAIN cells \cup {cell} |-> 1]

_insert_cell(cells, cell) ==
  [k \in DOMAIN cells \cup {cell} |->
     IF k = cell THEN (IF k \in DOMAIN cells THEN cells[k] + 1 ELSE 1)
     ELSE cells[k]]

add_node_result(c, n) ==
  Return(c, "add_node", NodeArg(n), c.nodes \cup {n}, c.edges, c.cells, FALSE)

add_cell_result_edges_first(c, x, rank) ==
  IF rank = 0 THEN
    Raise(c, "add_cell", CellArg(x, rank), "TopoNetXError",
          "Use add_node to insert nodes or zero ranked cells.")
  ELSE IF rank = 1 THEN
    IF Len(x.elems) # 2 THEN
      Raise(c, "add_cell", CellArg(x, rank), "ValueError",
            "rank 1 cells (edges) must have exactly two nodes")
    ELSE IF x.elems[1] = x.elems[2] THEN
      Raise(c, "add_cell", CellArg(x, rank), "ValueError",
            " invalid insertion : self-loops are not allowed.")
    ELSE
      Return(c, "add_cell", CellArg(x, rank), c.nodes \cup Elements(x.elems),
             c.edges \cup {Elements(x.elems)}, c.cells, FALSE)
  ELSE IF rank = 2 THEN
    IF x.kind # "iterable" THEN
      Raise(c, "add_cell", CellArg(x, rank), "ValueError", "invalid input, input must be iterable")
    ELSE IF is_insertable_cycle(x.elems) THEN
      Return(c, "add_cell", CellArg(x, rank), c.nodes \cup Elements(x.elems),
             c.edges \cup BoundaryEdges(x.elems), _insert_cell(c.cells, x.elems),
             \E k \in DOMAIN c.cells : Equivalent(k, x.elems))
    ELSE
      [Raise(c, "add_cell", CellArg(x, rank), "ValueError", "Invalid cycle condition for cell")
         EXCEPT !.nodes = c.nodes \cup Elements(x.elems),
                !.edges = c.edges \cup (BoundaryEdges(x.elems) \ {{n} : n \in CCNodes})]
  ELSE
    Raise(c, "add_cell", CellArg(x, rank), "ValueError",
          "Add cell only supports adding cells of dimensions 0,1 or 2")

\* add_cell(cell, rank=rank)
add_cell_result(c, x, rank) ==
  IF rank = 0 THEN
    Raise(c, "add_cell", CellArg(x, rank), "TopoNetXError",
          "Use add_node to insert nodes or zero ranked cells.")
  ELSE IF rank = 1 THEN
    IF Len(x.elems) # 2 THEN
      Raise(c, "add_cell", CellArg(x, rank), "ValueError",
            "rank 1 cells (edges) must have exactly two nodes")
    ELSE IF x.elems[1] = x.elems[2] THEN
      Raise(c, "add_cell", CellArg(x, rank), "ValueError",
            " invalid insertion : self-loops are not allowed.")
    ELSE
      Return(c, "add_cell", CellArg(x, rank), c.nodes \cup Elements(x.elems),
             c.edges \cup {Elements(x.elems)}, c.cells, FALSE)
  ELSE IF rank = 2 THEN
    IF x.kind # "iterable" THEN
      Raise(c, "add_cell", CellArg(x, rank), "ValueError", "invalid input, input must be iterable")
    ELSE IF is_insertable_cycle(x.elems) THEN
      Return(c, "add_cell", CellArg(x, rank), c.nodes \cup Elements(x.elems),
             c.edges \cup BoundaryEdges(x.elems), _insert_cell(c.cells, x.elems),
             \E k \in DOMAIN c.cells : Equivalent(k, x.elems))
    ELSE
      Raise(c, "add_cell", CellArg(x, rank), "ValueError", "Invalid cycle condition for cell")
  ELSE
    Raise(c, "add_cell", CellArg(x, rank), "ValueError",
          "Add cell only supports adding cells of dimensions 0,1 or 2")

\* remove_cell(cell): every copy stored under the elements tuple goes, the
\* nodes and the edges stay
remove_cell_result(c, cell) ==
  IF cell \notin DOMAIN c.cells THEN
    Raise(c, "remove_cell", NoArg, "KeyError", "cell is not in the complex")
  ELSE
    Return(c, "remove_cell", NoArg, c.nodes, c.edges,
           [k \in DOMAIN c.cells \ {cell} |-> c.cells[k]], FALSE)

remove_node_result_keep_cells(c, n) ==
  IF n \notin c.nodes THEN
    Raise(c, "remove_node", NodeArg(n), "TopoNetXError", "The given node is not in the complex")
  ELSE
    Return(c, "remove_node", NodeArg(n), c.nodes \ {n}, {e \in c.edges : n \notin e},
           c.cells, FALSE)

\* remove_node(node)
remove_node_result(c, n) ==
  IF n \notin c.nodes THEN
    Raise(c, "remove_node", NodeArg(n), "TopoNetXError", "The given node is not in the complex")
  ELSE
    Return(c, "remove_node", NodeArg(n), c.nodes \ {n}, {e \in c.edges : n \notin e},
           [k \in {k \in DOMAIN c.cells : n \notin Elements(k)} |-> c.cells[k]],
           FALSE)

traversal_sign_unsigned(e, cell) ==
  SumOver([i \in 1..Len(cell) |->
             IF {CyclicPairs(cell)[i][1], CyclicPairs(cell)[i][2]} = e THEN 1 ELSE 0],
          1..Len(cell))

\* the entry of the signed rank-2 incidence matrix for edge e and a cell: over
\* the traversal of the cell's boundary, +1 where e is walked from its
\* smaller to its larger node and -1 where it is walked the other way
traversal_sign(e, cell) ==
  SumOver([i \in 1..Len(cell) |->
             IF {CyclicPairs(cell)[i][1], CyclicPairs(cell)[i][2]} = e
             THEN (IF CyclicPairs(cell)[i][1] < CyclicPairs(cell)[i][2] THEN 1 ELSE -1)
             ELSE 0],
          1..Len(cell))

\* the columns of the rank-2 incidence matrix: one per stored copy
CellKeys(c) ==
  {p \in (DOMAIN c.cells) \X (0..(MaxCells - 1)) : p[2] < c.cells[p[1]]}

\* incidence_matrix(rank, signed=True) as a function of (row, column).
\* rank 1: rows nodes, columns edges, -1 at the smaller and +1 at the larger
\* node of the edge.  rank 2: rows edges, columns cells.
incidence_matrix(c, rank) ==
  IF rank = 1 THEN
    [p \in c.nodes \X c.edges |->
       IF p[1] \notin p[2] THEN 0 ELSE IF p[1] = Min(p[2]) THEN -1 ELSE 1]
  ELSE
    [p \in c.edges \X CellKeys(c) |-> traversal_sign(p[1], p[2][1])]

\* B1.dot(B2)
BoundaryProduct(c) ==
  [p \in c.nodes \X CellKeys(c) |->
     SumOver([e \in c.edges |->
                incidence_matrix(c, 1)[<<p[1], e>>] * incidence_matrix(c, 2)[<<e, p[2]>>]],
             c.edges)]

\* ------------------------------------------------- connected components
\* the entities of a component query: the nodes (cells=False), or the edges
\* and the rank-2 cells, each named by the set of its nodes (cells=True)
Entities(c, cells) ==
  IF cells THEN c.edges \cup {Elements(k) : k \in DOMAIN c.cells}
  ELSE c.nodes

\* what two entities share: two cells their common nodes, two nodes the edges
\* and rank-2 cells that hold both
Shared(c, cells, a, b) ==
  IF cells THEN a \cap b
  ELSE {e \in Entities(c, TRUE) : a \in e /\ b \in e}

\* the s-adjacency of the entities
Adjacency(c, s, cells) ==
  {p \in Entities(c, cells) \X Entities(c, cells) :
     p[1] # p[2] /\ Cardinality(Shared(c, cells, p[1], p[2])) >= s}

bfs_one_step(R, frontier, seen) ==
  seen \cup {p[2] : p \in {q \in R : q[1] \in frontier}}

\* breadth-first search from frontier
RECURSIVE bfs(_, _, _)
bfs(R, frontier, seen) ==
  IF frontier = {} THEN seen
  ELSE LET new == {p[2] : p \in {q \in R : q[1] \in frontier}} \ seen
       IN bfs(R, new, seen \cup new)

RECURSIVE connected_components(_, _)
connected_components(U, R) ==
  IF U = {} THEN {}
  ELSE LET x == CHOOSE x \in U : TRUE
           C == bfs(R, {x}, {x})
       IN {C} \cup connected_components(U \ C, R)

\* s_connected_components(s, cells, return_singletons), as the set of the
\* sets it yields
s_connected_components(c, s, cells, return_singletons) ==
  LET all == connected_components(Entities(c, cells), Adjacency(c, s, cells))
  IN IF return_singletons THEN all ELSE {C \in all : Cardinality(C) > 1}

\* is_connected(): the graph of the complex is in one piece
is_connected(c) ==
  Cardinality(connected_components(c.nodes, Adjacency(c, 1, FALSE))) = 1

Others == <<faces_dict, max_dim, call, sx>>

add_node(n) ==
  /\ cc' = add_node_result(cc, n)
  /\ UNCHANGED Others

\* at most MaxCells cells are stored at once
add_cell(x, rank) ==
  /\ NumCells(add_cell_result(cc, x, rank).cells) <= MaxCells
  /\ cc' = add_cell_result(cc, x, rank)
  /\ UNCHANGED Others

remove_cell(cell) ==
  /\ cc' = remove_cell_result(cc, cell)
  /\ UNCHANGED Others

remove_node(n) ==
  /\ cc' = remove_node_result(cc, n)
  /\ UNCHANGED Others


\* SimplexView.__init__
Init ==
  /\ faces_dict = << >>
  /\ max_dim = -1
  /\ call = [op |-> "init", arg |-> {}, attr |-> 0, res |-> "ok", msg |-> "",
             undoes |-> FALSE,
             stored |-> FALSE, maximal |-> FALSE]
  /\ sx = NoSx
  /\ cc = EmptyComplex

Insert == \E x \in InsertInputs, a \in AttrArgs : insert_simplex(x, a)

Remove == \E s \in Simplices : remove_maximal_simplex(s)

Next == Insert \/ Remove

Spec == Init /\ [][Next]_vars

\* insert_simplex calls only
SpecInsert == Init /\ [][Insert]_vars

InsertNode == \E x \in NodeInputs, a \in AttrArgs : insert_node(x, a)

InsertSmall ==
  \E x \in {y \in InsertInputs : y.nodes \subseteq 1..NodeNumNodes}, a \in AttrArgs :
     insert_simplex(x, a)

RemoveSmall == \E s \in NodeSimplices : remove_maximal_simplex(s)

NextNode == InsertSmall \/ RemoveSmall \/ InsertNode

\* insert_simplex, remove_maximal_simplex and insert_node calls
SpecNode == Init /\ [][NextNode]_vars

Contains == \E nodes \in SUBSET Nodes, e \in ContainsQueries : contains(nodes, e)

NewSimplex ==
  \E x \in SimplexInputs, tree \in BOOLEAN, a \in AttrArgs : new_simplex(x, tree, a)

Faces == \E nodes \in SUBSET Nodes, tree \in BOOLEAN : faces(nodes, tree)

Equals ==
  \E a, b \in SUBSET Nodes, attr_a, attr_b \in AttrArgs : equals(a, attr_a, b, attr_b)

NextSimplex == Contains \/ NewSimplex \/ Faces \/ Equals

\* operations on Simplex objects
SpecSimplex == Init /\ [][NextSimplex]_vars

AddNode == \E n \in CCNodes : add_node(n)

AddCell == \E p \in AddCellInputs : add_cell(p[1], p[2])

RemoveCell == \E cell \in CellTuples(3, MaxCellLen) : remove_cell(cell)

RemoveNode == \E n \in CCNodes : remove_node(n)

NextCC == AddNode \/ AddCell \/ RemoveCell \/ RemoveNode

\* operations on a CellComplex
SpecCC == Init /\ [][NextCC]_vars

\* the triangles (i, i+1, i+2) and the edges (i, i+1) over 1..CompNumNodes
AddTriangle == \E i \in 1..(CompNumNodes - 2) : add_cell(IterableArg(<<i, i + 1, i + 2>>), 2)

AddEdge == \E i \in 1..(CompNumNodes - 1) : add_cell(IterableArg(<<i, i + 1>>), 1)

AddIsolated == \E n \in 1..CompNumNodes : add_node(n)

DropNode == \E n \in 1..CompNumNodes : remove_node(n)

NextComponents == AddTriangle \/ AddEdge \/ AddIsolated \/ DropNode

\* complexes built from triangles and edges along a line of nodes
SpecComponents == Init /\ [][NextComponents]_vars

AddCell2 == \E p \in AddCellInputs : p[2] = 2 /\ add_cell(p[1], p[2])

\* add_cell(c, rank=2) calls only, on an empty complex
SpecAddCell2 == Init /\ [][AddCell2]_vars

\* ----------------------------------------------------------- observations
StoredNow == AllStored(faces_dict)

ProperSubset(a, b) == a \subseteq b /\ a # b

\* the structural part of a store: keys, flags and membership sets per level
Structure(fd) ==
  [i \in 1..Len(fd) |->
     [s \in DOMAIN fd[i] |->
        <<fd[i][s].is_maximal, fd[i][s].membership>>]]

StoreUnchanged == faces_dict' = faces_dict /\ max_dim' = max_dim

RemoveRaised ==
  call'.op = "remove_maximal_simplex" /\ call'.res # "ok"

\* ------------------------------------------------------------------ claims

\* C1: after any sequence of insert_simplex and remove_maximal_simplex calls
\* every stored record F has is_maximal(F) exactly when membership(F) is empty.
C1_MaximalIffMembershipEmpty ==
  \A s \in StoredNow :
     Rec(faces_dict, s).is_maximal <=> (Rec(faces_dict, s).membership = {})

\* C2: a stored record has is_maximal exactly when no currently stored
\* simplex properly contains it.
C2_MaximalIffNoStoredSuperset ==
  \A s \in StoredNow :
     Rec(faces_dict, s).is_maximal
        <=> ~ \E t \in StoredNow : ProperSubset(s, t)

\* C3: downward closure: every non-empty subset of a stored simplex is stored
\* at the level of its size.
C3_DownwardClosed ==
  \A e \in StoredNow :
     \A f \in (SUBSET e) \ {{}} : Stored(faces_dict, f)

Referenced(e) == \E g \in StoredNow : e \in Rec(faces_dict, g).membership

C5_FailedRemoveIsAtomic ==
  [][RemoveRaised => StoreUnchanged]_vars

\* C6: remove_maximal_simplex on a stored simplex whose is_maximal flag is
\* true completes without raising and removes the simplex.
C6_MaximalIsRemovable ==
  (call.op = "remove_maximal_simplex" /\ call.stored /\ call.maximal)
     => (call.res = "ok" /\ ~ Stored(faces_dict, call.arg))

\* C7: after insert_simplex(S) of a simplex S that was not stored, S is
\* stored maximal with empty membership and every proper non-empty face of S
\* is stored non-maximal with S in its membership.
C7_InsertNewPostcondition ==
  (call.op = "insert_simplex" /\ ~ call.stored /\ call.res = "ok")
     => /\ Stored(faces_dict, call.arg)
        /\ Rec(faces_dict, call.arg).is_maximal
        /\ Rec(faces_dict, call.arg).membership = {}
        /\ \A f \in ProperFaces(call.arg) :
              /\ Stored(faces_dict, f)
              /\ ~ Rec(faces_dict, f).is_maximal
              /\ call.arg \in Rec(faces_dict, f).membership

C7_Witness ==
  /\ call.op = "insert_simplex" /\ ~ call.stored /\ call.res = "ok"
  /\ Cardinality(call.arg) = 3
  /\ \E f \in ProperFaces(call.arg) :
        Cardinality(f) = 2 /\ Rec(faces_dict, f).attr # 0

C9_RemoveNonMaximalRejected ==
  [][(call'.op = "remove_maximal_simplex" /\ call'.stored /\ ~ call'.maximal)
       => (call'.res = "ValueError" /\ StoreUnchanged)]_vars

C9_Witness ==
  /\ call.op = "remove_maximal_simplex" /\ call.stored /\ ~ call.maximal
  /\ call.res = "ValueError"
  /\ \E t \in StoredNow : ProperSubset(call.arg, t)

\* C10: remove_maximal_simplex on a simplex that is not stored (also one with
\* more nodes than max_dim + 1, also on an empty store) raises KeyError and
\* leaves faces_dict and max_dim unchanged.
C10_RemoveAbsentRaisesKeyError ==
  [][(call'.op = "remove_maximal_simplex" /\ ~ call'.stored)
       => (call'.res = "KeyError" /\ StoreUnchanged)]_vars

InsertRejected == call'.op = "insert_simplex" /\ call'.res # "ok"

\* C11: an insert_simplex call that raises because the input holds a repeated
\* element, holds an unhashable element or is neither iterable nor hashable
\* leaves faces_dict, its length and max_dim exactly as before the call.
C11_RejectedInsertLeavesStore ==
  [][InsertRejected
       => /\ call'.res \in {"ValueError", "TypeError"}
          /\ Len(faces_dict') = Len(faces_dict)
          /\ StoreUnchanged]_vars

C11_Witness ==
  /\ call.op = "insert_simplex" /\ call.res = "ValueError"
  /\ call.msg = "a simplex cannot contain duplicate nodes"
  /\ max_dim = 0 /\ Len(faces_dict) = 1

\* C12: every element of every record's membership set is a stored simplex;
\* after remove_maximal_simplex(S), whether it raised or not, a simplex S that
\* is no longer stored is in no record's membership.
C12_NoDanglingMembership ==
  /\ \A f \in StoredNow :
        \A e \in Rec(faces_dict, f).membership : Stored(faces_dict, e)
  /\ (call.op = "remove_maximal_simplex" /\ ~ Stored(faces_dict, call.arg))
        => ~ Referenced(call.arg)

C12_Witness ==
  /\ call.op = "remove_maximal_simplex" /\ call.res = "ok"
  /\ Cardinality(call.arg) = 2
  /\ \E f \in ProperFaces(call.arg) :
        Stored(faces_dict, f) /\ Rec(faces_dict, f).membership # {}

\* the outcomes of insert_simplex(S) followed at once by
\* remove_maximal_simplex(S), from the current store
InsertThenRemove(S) ==
  LET r == InsertResult(faces_dict, max_dim, S, 0)
  IN  RemoveOutcomes(r.fd, r.max_dim, S)

LowerRank(fd, S) == {t \in AllStored(fd) : Cardinality(t) < Cardinality(S)}

\* C13 as stated: inserting a simplex none of whose faces is stored and then
\* removing it leaves the stored lower-rank simplices (nodes, edges) equal to
\* those before the insertion.
C13_InsertThenRemoveRestores ==
  \A S \in Simplices :
     (\A f \in (SUBSET S) \ {{}} : ~ Stored(faces_dict, f))
        => \A o \in InsertThenRemove(S) :
              /\ o.res = "ok"
              /\ LowerRank(o.fd, S) = LowerRank(faces_dict, S)

\* C13 amended: inserting a simplex S that is not stored and then removing it
\* succeeds and removes the record of S only: the stored simplices are those
\* before the insertion together with the proper faces of S, which stay
\* stored; the prior set is restored exactly when every proper face of S was
\* stored before.
C13_InsertThenRemoveKeepsFaces ==
  \A S \in Simplices :
     ~ Stored(faces_dict, S)
        => \A o \in InsertThenRemove(S) :
              /\ o.res = "ok"
              /\ AllStored(o.fd) = StoredNow \cup ProperFaces(S)
              /\ (AllStored(o.fd) = StoredNow) <=> (ProperFaces(S) \subseteq StoredNow)

C13_Witness ==
  /\ call.op = "remove_maximal_simplex" /\ call.undoes /\ call.res = "ok"
  /\ Cardinality(call.arg) = 3
  /\ ProperFaces(call.arg) \subseteq StoredNow

\* C20: "e in s" is true when e is a single element that is a node of s, true
\* when e is a non-empty collection whose elements are all nodes of s, and
\* false otherwise.
C20_ContainsNodeOrFace ==
  sx.op = "contains"
     => (sx.result <=>
           /\ sx.e.kind \in {"iterable", "hashable"}
           /\ sx.e.elems # {}
           /\ sx.e.elems \subseteq sx.nodes)

\* --------------------------------------------------------------------- C17
\* the elements and the cyclically consecutive pairs of the stored cells
CellElements == UNION {{k[i] : i \in 1..Len(k)} : k \in DOMAIN cc.cells}

CellPairs ==
  UNION {{{k[i], k[(i % Len(k)) + 1]} : i \in 1..Len(k)} : k \in DOMAIN cc.cells}

InvalidAddCell(a) ==
  \/ a.rank = 0
  \/ a.rank = 1 /\ a.len # 2
  \/ a.rank = 1 /\ a.len = 2 /\ a.distinct = 1
  \/ a.rank = 2 /\ a.kind = "iterable" /\ a.distinct < a.len
  \/ a.rank = 2 /\ a.kind # "iterable"
  \/ a.rank > 2

ComplexUnchanged ==
  /\ cc'.nodes = cc.nodes
  /\ cc'.edges = cc.edges
  /\ cc'.cells = cc.cells

\* C18: add_cell with rank 0, with rank 1 and other than two elements, with
\* rank 1 and two equal elements, with rank 2 and a cell that repeats an
\* element, with rank 2 and a non-iterable cell, or with a rank above 2
\* raises an error and leaves nodes, edges and cells as they were.
C18_InvalidAddCellRejected ==
  [][(cc'.op = "add_cell" /\ InvalidAddCell(cc'.arg))
       => (cc'.res # "ok" /\ ComplexUnchanged)]_vars

\* a cell that fails the cycle check was rejected by a complex holding cells
C18_Witness ==
  /\ cc.op = "add_cell"
  /\ cc.res = "ValueError"
  /\ cc.msg = "Invalid cycle condition for cell"
  /\ cc.arg.rank = 2 /\ cc.arg.distinct < cc.arg.len
  /\ cc.cells # << >>

\* --------------------------------------------------------------------- C16
\* C16: remove_node(n) on a node of the complex removes n, the edges that
\* contain n and every copy of the rank-2 cells that contain n, and leaves
\* every other node, edge and cell in place; on a node that is not in the
\* complex it raises an error and changes nothing.
C16_RemoveNodeCascades ==
  [][cc'.op = "remove_node" =>
       LET n == cc'.arg.node IN
       IF n \in cc.nodes THEN
         /\ cc'.res = "ok"
         /\ cc'.nodes = cc.nodes \ {n}
         /\ \A e \in cc.edges : e \in cc'.edges <=> n \notin e
         /\ cc'.edges \subseteq cc.edges
         /\ \A k \in DOMAIN cc.cells :
              IF \E i \in 1..Len(k) : k[i] = n
              THEN k \notin DOMAIN cc'.cells
              ELSE k \in DOMAIN cc'.cells /\ cc'.cells[k] = cc.cells[k]
         /\ DOMAIN cc'.cells \subseteq DOMAIN cc.cells
       ELSE
         /\ cc'.res = "TopoNetXError"
         /\ ComplexUnchanged]_vars

\* a node was removed from a complex of two cells, one cell and some edges
\* survive
C16_Witness ==
  /\ cc.op = "remove_node" /\ cc.res = "ok"
  /\ cc.before = 2
  /\ NumCells(cc.cells) = 1
  /\ cc.edges # {}

C14_BoundaryOfBoundaryIsZero ==
  \A p \in DOMAIN BoundaryProduct(cc) : BoundaryProduct(cc)[p] = 0

\* after a deletion the complex still holds two cells that share an edge
\* which they walk in opposite directions
C14_Witness ==
  /\ cc.op \in {"remove_cell", "remove_node"} /\ cc.res = "ok"
  /\ \E e \in cc.edges : \E j, k \in CellKeys(cc) :
       /\ incidence_matrix(cc, 2)[<<e, j>>] = 1
       /\ incidence_matrix(cc, 2)[<<e, k>>] = -1

\* --------------------------------------------------------------------- C19
\* the pairs joined by a path of adjacent entities: the least relation that
\* holds R and is closed under composition
RECURSIVE PathClosure(_)
PathClosure(R) ==
  LET R2 == R \cup {<<x[1][1], x[2][2]>> : x \in {y \in R \X R : y[1][2] = y[2][1]}}
  IN IF R2 = R THEN R ELSE PathClosure(R2)

ComponentsAreThePathClasses(c, cells, singletons) ==
  LET comps == s_connected_components(c, 1, cells, singletons)
      U == Entities(c, cells)
      joined == PathClosure(Adjacency(c, 1, cells))
  IN /\ \A A, B \in comps : A # B => A \cap B = {}
     /\ \A A \in comps : A # {} /\ A \subseteq U
     /\ \A a, b \in U : a # b =>
          ((\E A \in comps : a \in A /\ b \in A) <=> <<a, b>> \in joined)
     /\ singletons => UNION comps = U

\* the complex is two triangles with no node in common
TwoDisjointTriangles(c) ==
  /\ NumCells(c.cells) = 2
  /\ \E j, k \in DOMAIN c.cells :
       /\ Len(j) = 3 /\ Len(k) = 3 /\ Elements(j) \cap Elements(k) = {}
       /\ c.nodes = Elements(j) \cup Elements(k)
       /\ c.edges = BoundaryEdges(j) \cup BoundaryEdges(k)

\* C19: the sets yielded by s_connected_components with s = 1 are pairwise
\* disjoint, and two nodes (two cells) lie in one set exactly when a path of
\* adjacent nodes (cells) joins them; two disjoint triangles give two
\* components of nodes and two of cells, and is_connected is false.
C19_ComponentsPartitionByPaths ==
  /\ \A cells, singletons \in BOOLEAN :
       ComponentsAreThePathClasses(cc, cells, singletons)
  /\ TwoDisjointTriangles(cc) =>
       /\ \A cells, singletons \in BOOLEAN :
            Cardinality(s_connected_components(cc, 1, cells, singletons)) = 2
       /\ ~is_connected(cc)

\* two disjoint triangles are stored
C19_Witness ==
  /\ TwoDisjointTriangles(cc)
  /\ cc.op = "add_cell" /\ cc.res = "ok"

\* --------------------------------------------------------------------- C25
\* the stored simplices flagged maximal that properly contain F
MaximalSupersets(fd, F) ==
  {T \in AllStored(fd) : Rec(fd, T).is_maximal /\ ProperSubset(F, T)}

\* C25: for every stored simplex F, membership(F) is exactly the set of the
\* stored maximal simplices that properly contain F.
C25_MembershipIsMaximalSupersets ==
  \A F \in StoredNow :
     Rec(faces_dict, F).membership = MaximalSupersets(faces_dict, F)

\* --------------------------------------------------------------------- C27
\* the store after insert_simplex(A) followed by insert_simplex(B)
InsertBoth(A, B) ==
  LET r == InsertResult(faces_dict, max_dim, A, 0)
  IN  InsertResult(r.fd, r.max_dim, B, 0)

\* C27: from every reachable state, for any two simplices A and B given
\* without attributes, inserting A then B gives the same stored simplices,
\* flags, membership sets and max_dim as inserting B then A.
C27_InsertionOrderIrrelevant ==
  \A A, B \in Simplices :
     LexLess(A, B) =>
       LET ab == InsertBoth(A, B)
           ba == InsertBoth(B, A)
       IN  <<Structure(ab.fd), ab.max_dim>> = <<Structure(ba.fd), ba.max_dim>>

\* after a removal, two simplices that are not stored and share a node can be
\* inserted, and the simplex inserted first demotes a face that the second
\* finds already demoted
C27_Witness ==
  /\ call.op = "remove_maximal_simplex" /\ call.res = "ok"
  /\ \E A, B \in Simplices :
       /\ A # B /\ A \cap B # {}
       /\ ~ Stored(faces_dict, A) /\ ~ Stored(faces_dict, B)
       /\ \E F \in StoredNow :
            F \subseteq A \cap B /\ Rec(faces_dict, F).is_maximal

\* --------------------------------------------------------------------- C30
\* the stores remove_maximal_simplex(S) followed by insert_simplex(S) can end
\* in, when the removal succeeds
RemoveThenInsert(S) ==
  {InsertResult(o.fd, o.max_dim, S, 0) :
     o \in {q \in RemoveOutcomes(faces_dict, max_dim, S) : q.res = "ok"}}

\* C30: in a state reached by insert_simplex calls only, for a stored maximal
\* simplex S without attributes, a successful remove_maximal_simplex(S)
\* followed by insert_simplex(S) restores the store.
C30_RemoveThenInsertRestores ==
  \A S \in StoredNow :
     (Rec(faces_dict, S).is_maximal /\ Rec(faces_dict, S).attr = 0) =>
        \A r \in RemoveThenInsert(S) :
           r.fd = faces_dict /\ r.max_dim = max_dim

\* a stored maximal simplex without attributes whose removal succeeds shares
\* a face with another stored maximal simplex
C30_Witness ==
  /\ call.op = "insert_simplex" /\ call.res = "ok"
  /\ \E S \in StoredNow :
       /\ Rec(faces_dict, S).is_maximal /\ Rec(faces_dict, S).attr = 0
       /\ RemoveThenInsert(S) # {}
       /\ \E F \in ProperFaces(S) :
            Stored(faces_dict, F) /\ Cardinality(Rec(faces_dict, F).membership) > 1

\* --------------------------------------------------------------------- C29
\* C29: a successful remove_maximal_simplex(S) removes the record of S and no
\* other, and leaves the record of every stored simplex that is not a proper
\* face of S as it was.
C29_RemoveTouchesOnlyFaces ==
  [][(call'.op = "remove_maximal_simplex" /\ call'.res = "ok") =>
       /\ AllStored(faces_dict') = AllStored(faces_dict) \ {call'.arg}
       /\ call'.arg \in AllStored(faces_dict)
       /\ \A T \in AllStored(faces_dict') :
            T \notin ProperFaces(call'.arg)
               => Rec(faces_dict', T) = Rec(faces_dict, T)]_vars

\* a simplex was removed while a simplex that is no face of it is stored, and
\* a face of the removed simplex lies in another maximal simplex
C29_Witness ==
  /\ call.op = "remove_maximal_simplex" /\ call.res = "ok"
  /\ \E T \in StoredNow : ~ (T \subseteq call.arg)
  /\ \E F \in ProperFaces(call.arg) :
       Stored(faces_dict, F) /\ Rec(faces_dict, F).membership # {}

\* --------------------------------------------------------------------- C21
RECURSIVE Binomial(_, _)
Binomial(k, r) ==
  IF r = 0 \/ r = k THEN 1
  ELSE IF r > k THEN 0
  ELSE Binomial(k - 1, r - 1) + Binomial(k - 1, r)

\* the faces of size r in a set of Simplex objects
FacesOfSize(fs, r) == {f \in fs : Cardinality(f.nodes) = r}

NodeSets(fs) == {f.nodes : f \in fs}

\* fs holds exactly one object for every r-element subset of nodes
OnePerSubset(fs, nodes, r) ==
  /\ Cardinality(FacesOfSize(fs, r)) = Binomial(Cardinality(nodes), r)
  /\ NodeSets(FacesOfSize(fs, r)) = {q \in SUBSET nodes : Cardinality(q) = r}

\* the node sets of the faces with the other value of construct_tree
OtherTreeFaces ==
  NodeSets(Simplex_faces(Simplex_init([nodes |-> sx.nodes, repeats |-> 0],
                                      ~ sx.tree, 0)))

\* C21 as stated: the faces of a Simplex of size k are one per r-element
\* subset for 1 <= r < k and none of size k, whatever construct_tree is.
C21_FacesAreProperSubsets ==
  sx.op = "faces" =>
    /\ \A r \in 1..(sx.len - 1) : OnePerSubset(sx.faces, sx.nodes, r)
    /\ FacesOfSize(sx.faces, sx.len) = {}
    /\ NodeSets(sx.faces) = OtherTreeFaces

\* C21, amended: the faces of a Simplex of size k are one per r-element
\* subset of its nodes for 1 <= r <= k, the node set of the simplex itself
\* included, and nothing else, whatever construct_tree is.
C21_FacesAreNonEmptySubsets ==
  sx.op = "faces" =>
    /\ \A r \in 1..sx.len : OnePerSubset(sx.faces, sx.nodes, r)
    /\ NodeSets(sx.faces) = (SUBSET sx.nodes) \ {{}}
    /\ NodeSets(sx.faces) = OtherTreeFaces

\* the faces of a simplex on all nodes, built without its tree, were taken
C21_Witness ==
  /\ sx.op = "faces" /\ ~ sx.tree
  /\ sx.len = NumNodes
  /\ Cardinality(sx.faces) > NumNodes

\* --------------------------------------------------------------------- C22
\* C22: Simplex(elements) raises ValueError when an element is repeated and
\* otherwise succeeds with len equal to the number of elements; insert_simplex
\* on a plain iterable of hashable elements with a repeated element raises
\* the same ValueError.
C22_DuplicateElementsRejected ==
  /\ sx.op = "Simplex" =>
       IF sx.n > Cardinality(sx.nodes)
       THEN sx.res = "ValueError"
       ELSE sx.res = "ok" /\ sx.len = sx.n
  /\ \A x \in InsertInputs, a \in AttrArgs :
       (x.kind = "iterable" /\ ~ x.unhashable /\ x.repeats > 0) =>
          LET o == InsertOutcome(faces_dict, max_dim, x, a)
          IN  /\ o.res = "ValueError"
              /\ o.msg = Simplex_init([nodes |-> x.nodes, repeats |-> x.repeats],
                                      TRUE, a).msg

\* a Simplex was asked for with a repeated element
C22_Witness ==
  /\ sx.op = "Simplex" /\ sx.res = "ValueError"
  /\ sx.n > Cardinality(sx.nodes)
  /\ Cardinality(sx.nodes) > 1

\* --------------------------------------------------------------------- C23
\* C23: two Simplex objects built from the same set of elements are equal,
\* whatever the order of the elements and the attributes.
C23_EqualOnSameNodes ==
  (sx.op = "eq" /\ sx.nodes = sx.other) => sx.result

\* --------------------------------------------------------------------- C24
\* C24: in every reachable state view[x] returns the stored record when x (a
\* Simplex object, an iterable of nodes or a single node) denotes a stored
\* simplex, and raises KeyError when it denotes a simplex that is not stored.
C24_LookupReturnsOrRaisesKeyError ==
  \A x \in LookupInputs :
     (x.kind # "object" /\ x.nodes # {} /\ x.repeats = 0) =>
        LET r == getitem(faces_dict, max_dim, x)
        IN  IF Stored(faces_dict, x.nodes)
            THEN r.res = "ok" /\ r.value = Rec(faces_dict, x.nodes)
            ELSE r.res = "KeyError"

\* --------------------------------------------------------------------- C28
\* C28: whatever attribute names and values insert_simplex is given, as
\* keywords or as properties of a Simplex object, the is_maximal flags and
\* the membership sets after the call are those of the same call without
\* attributes.
C28_AttributesLeaveStructure ==
  \A S \in Simplices, kw \in KwArgs :
     Structure(InsertKw(faces_dict, max_dim, S, kw).fd)
        = Structure(InsertResult(faces_dict, max_dim, S, 0).fd)

\* the largest dimension of a stored simplex, -1 when nothing is stored
LargestDim(fd) ==
  LET dims == {Cardinality(s) - 1 : s \in AllStored(fd)}
  IN  IF dims = {} THEN -1 ELSE CHOOSE d \in dims : \A e \in dims : e <= d

\* C26: after any sequence of insert_simplex, insert_node and
\* remove_maximal_simplex calls, max_dim equals len(faces_dict) - 1 and the
\* largest dimension of a stored simplex, every level 0..max_dim holds at
\* least one simplex, and max_dim is -1 with faces_dict empty exactly when
\* nothing is stored.
C26_MaxDimMatchesLevels ==
  /\ max_dim = Len(faces_dict) - 1
  /\ max_dim = LargestDim(faces_dict)
  /\ \A i \in 1..Len(faces_dict) : DOMAIN faces_dict[i] # {}
  /\ (max_dim = -1 /\ faces_dict = << >>) <=> (AllStored(faces_dict) = {})

====
